---- MODULE Spec2Model ----
(***************************************************************************)
(* Grammar normalisation pipeline (Grammar.prepare_for_checking) and the   *)
(* backtracking recursive-descent membership checker (Grammar.check_word)  *)
(* of src/grammar/grammar.py, with the prefix tree of                     *)
(* src/grammar/prefix_tree.py.                                             *)
(*                                                                         *)
(* Encoding.  A symbol is an integer.  Non-terminals are the integers      *)
(* below TermBase (the loader numbers them 0,1,2,...; fresh ones are       *)
(* max+1 or min-1).  The terminal character number c is TermBase + c, and  *)
(* the empty string '' (used as a key of the FIRST index) is TermBase.     *)
(* A derivation is a sequence of symbols, a word a sequence of terminals.  *)
(* A rule map (Python dict NonTerminal -> set of Derivation) is a function *)
(* whose DOMAIN is the set of keys of the dict.                            *)
(*                                                                         *)
(* Iteration order.  A dict is iterated in the order in which its keys     *)
(* were inserted: the model keeps that order next to every rule map whose  *)
(* order the code depends on.  A set of derivations is iterated in an      *)
(* order that depends on the hashes of its members, and string hashes are  *)
(* randomised per process: where the result of a loop depends on that      *)
(* order the model takes every order, where it does not (fixpoints) it     *)
(* takes one.  A set of small non-negative integers is iterated by CPython *)
(* in increasing order.                                                    *)
(***************************************************************************)
EXTENDS Integers, Sequences, FiniteSets, TLC

\* ------------------------------------------------------------ bounds ----
NumNT == 2        \* non-terminal identifiers the loader hands out: 0..NumNT-1
NumT == 1         \* terminal characters
MaxLen == 2       \* longest right-hand side in a loaded grammar
MaxRules == 3     \* rules in a loaded grammar
MaxSyms == 5      \* right-hand-side symbols in a loaded grammar, in total
MaxWord == 2      \* longest word handed to check_word
MaxRulesWide == 5 \* rules in a loaded grammar, wide specification
MaxSymsWide == 6  \* right-hand-side symbols in total, wide specification
MaxRounds == 2    \* calls of prepare_for_checking on one grammar
MaxFanout == 3    \* rules of one non-terminal in a grammar that is prepared again
MaxCalls == 4     \* add_rule / del_rule calls made on one Grammar
MaxStoreLen == 1  \* longest derivation handed to add_rule / del_rule
MaxEqRules == 2   \* rules of an operand of ==
MaxEqSyms == 1    \* right-hand-side symbols of an operand of ==, in total
MaxDepth == 18    \* interpreter recursion limit, in frames of recursive_descent_parsing

\* ---------------------------------------------------------- encoding ----
TermBase == 100
EmptyStr == TermBase
EmptyWord == <<>>
IsNT(symb) == symb < TermBase
Terminals == {TermBase + c : c \in 1..NumT}
LoaderNT == 0..(NumNT - 1)

Max(S) == CHOOSE x \in S : \A y \in S : y <= x
Min(S) == CHOOSE x \in S : \A y \in S : x <= y

RECURSIVE SetToSeq(_)
SetToSeq(S) == IF S = {} THEN <<>>
               ELSE LET x == CHOOSE y \in S : TRUE IN <<x>> \o SetToSeq(S \ {x})

\* every order in which a for-loop may visit the elements of the set S
RECURSIVE Perms(_)
Perms(S) == IF S = {} THEN {<<>>}
            ELSE UNION {{<<x>> \o p : p \in Perms(S \ {x})} : x \in S}

Range(s) == {s[k] : k \in 1..Len(s)}

\* the members of a set of integers in increasing order
RECURSIVE Ascending(_)
Ascending(S) == IF S = {} THEN <<>> ELSE <<Min(S)>> \o Ascending(S \ {Min(S)})

\* insertion order of the keys of a dict after its keys became the set dom:
\* deleted keys leave, remaining keys keep their place, new keys go last
KeyOrder(keys, dom) ==
    SelectSeq(keys, LAMBDA n : n \in dom) \o Ascending(dom \ Range(keys))
NTsOf(deriv) == {deriv[k] : k \in {j \in 1..Len(deriv) : IsNT(deriv[j])}}

\* ------------------------------------------------------ Grammar store ----
EmptyRules == [n \in {} |-> {}]

\* Grammar.__iter__: all (nterm, derivation) pairs
Items(r) == UNION {{<<n, d>> : d \in r[n]} : n \in DOMAIN r}

\* Grammar.add_rule(nterm, deriv)
add_rule(r, nterm, deriv) ==
    [n \in (DOMAIN r) \cup {nterm} |->
        IF n = nterm THEN (IF n \in DOMAIN r THEN r[n] ELSE {}) \cup {deriv}
        ELSE r[n]]

\* add_rule for each derivation of a set
add_rules(r, nterm, derivs) ==
    IF derivs = {} THEN r
    ELSE [n \in (DOMAIN r) \cup {nterm} |->
            IF n = nterm THEN (IF n \in DOMAIN r THEN r[n] ELSE {}) \cup derivs
            ELSE r[n]]

\* Grammar.del_rule raises KeyError when the key or the derivation is absent
del_rule_raises(r, nterm, deriv) == nterm \notin DOMAIN r \/ deriv \notin r[nterm]

\* a del_rule that keeps the key of a set it has emptied
DelRuleKeepsKey(r, nterm, deriv) == [r EXCEPT ![nterm] = r[nterm] \ {deriv}]
\* Grammar.del_rule(nterm, deriv), when it does not raise
del_rule(r, nterm, deriv) ==
    IF r[nterm] = {deriv}
    THEN [n \in (DOMAIN r) \ {nterm} |-> r[n]]
    ELSE [r EXCEPT ![nterm] = r[nterm] \ {deriv}]

\* Grammar.__eq__(self, other), the operands being records of start and rules
__eq__(self, other) ==
    IF self.initial # other.initial THEN FALSE
    ELSE \A nterm \in DOMAIN self.rules :
            /\ nterm \in DOMAIN other.rules
            /\ self.rules[nterm] = other.rules[nterm]

\* every non-terminal that occurs in the grammar: start, keys, right-hand sides
AllNT(init, r) ==
    {init} \cup DOMAIN r \cup UNION {NTsOf(p[2]) : p \in Items(r)}

\* Grammar.max_nterm
max_nterm(init, r) == Max(AllNT(init, r))

\* --------------------------------------------------- pure analyses ----
\* `type(symb) == Terminal` with Terminal = chr: chr is the builtin function,
\* never the type of a value, so the comparison is false for every symbol
TypeIsTerminal(symb) == FALSE

\* fully_propertiable(property, derivation)
fully_propertiable(property, derivation) ==
    \A k \in 1..Len(derivation) :
        IsNT(derivation[k]) => derivation[k] \in property

\* Grammar._vanishing: direct empty productions, then the fixpoint
RECURSIVE VanishingFix(_, _)
VanishingFix(r, vanishing) ==
    LET more == {p[1] : p \in {q \in Items(r) :
                    /\ q[1] \notin vanishing
                    /\ \A k \in 1..Len(q[2]) :
                          ~(TypeIsTerminal(q[2][k]) \/ q[2][k] \notin vanishing)}}
    IN  IF more = {} THEN vanishing ELSE VanishingFix(r, vanishing \cup more)

_vanishing(r) == VanishingFix(r, {p[1] : p \in {q \in Items(r) : Len(q[2]) = 0}})

\* Grammar._has_cycle: three-colour depth-first search; the result carries
\* the grey and black sets, which the caller shares between calls
RECURSIVE _has_cycle(_, _, _, _, _)
RECURSIVE HasCycleDerivs(_, _, _, _, _)
RECURSIVE HasCycleSymbols(_, _, _, _, _, _)
HasCycleSymbols(r, vanishing, derivation, k, grey, black) ==
    IF k > Len(derivation) THEN [res |-> FALSE, grey |-> grey, black |-> black]
    ELSE LET symb == derivation[k] IN
         IF TypeIsTerminal(symb) THEN [res |-> FALSE, grey |-> grey, black |-> black]
         ELSE IF symb \in grey THEN [res |-> TRUE, grey |-> grey, black |-> black]
         ELSE LET sub == IF symb \notin black
                         THEN _has_cycle(r, symb, vanishing, grey, black)
                         ELSE [res |-> FALSE, grey |-> grey, black |-> black]
              IN  IF sub.res THEN sub
                  ELSE IF symb \notin vanishing THEN sub
                  ELSE HasCycleSymbols(r, vanishing, derivation, k + 1, sub.grey, sub.black)
HasCycleDerivs(r, vanishing, derivs, grey, black) ==
    IF derivs = <<>> THEN [res |-> FALSE, grey |-> grey, black |-> black]
    ELSE LET x == HasCycleSymbols(r, vanishing, Head(derivs), 1, grey, black)
         IN  IF x.res THEN x
             ELSE HasCycleDerivs(r, vanishing, Tail(derivs), x.grey, x.black)
_has_cycle(r, v, vanishing, grey, black) ==
    LET x == IF v \in DOMAIN r
             THEN HasCycleDerivs(r, vanishing, SetToSeq(r[v]), grey \cup {v}, black)
             ELSE [res |-> FALSE, grey |-> grey \cup {v}, black |-> black]
    IN  IF x.res THEN x
        ELSE [res |-> FALSE, grey |-> x.grey \ {v}, black |-> x.black \cup {v}]

\* Grammar._has_left_recursion: restart the search from every key not yet black
RECURSIVE HasLeftRecLoop(_, _, _, _, _)
HasLeftRecLoop(r, vanishing, keys, grey, black) ==
    IF keys = <<>> THEN FALSE
    ELSE IF Head(keys) \in black
         THEN HasLeftRecLoop(r, vanishing, Tail(keys), grey, black)
         ELSE LET x == _has_cycle(r, Head(keys), vanishing, grey, black)
              IN  x.res \/ HasLeftRecLoop(r, vanishing, Tail(keys), x.grey, x.black)
\* a search that starts from the start symbol 0 only
HasLeftRecFromStart(r, vanishing) == _has_cycle(r, 0, vanishing, {}, {}).res
_has_left_recursion(r, vanishing) ==
    HasLeftRecLoop(r, vanishing, SetToSeq(DOMAIN r), {}, {})

\* Grammar._remove_dead
RECURSIVE HasTerminalFix(_, _)
HasTerminalFix(r, has_terminal) ==
    LET more == {p[1] : p \in {q \in Items(r) :
                    q[1] \notin has_terminal /\ fully_propertiable(has_terminal, q[2])}}
    IN  IF more = {} THEN has_terminal ELSE HasTerminalFix(r, has_terminal \cup more)
HasTerminal(r) ==
    HasTerminalFix(r, {p[1] : p \in {q \in Items(r) : NTsOf(q[2]) = {}}})
_remove_dead(r) ==
    LET has_terminal == HasTerminal(r)
        keep == {p \in Items(r) :
                    p[1] \in has_terminal /\ fully_propertiable(has_terminal, p[2])}
    IN  [n \in {p[1] : p \in keep} |-> {p[2] : p \in {q \in keep : q[1] = n}}]

\* Grammar._remove_unreachable
RECURSIVE ReachableFix(_, _)
ReachableFix(r, reachable) ==
    LET more == UNION {NTsOf(p[2]) : p \in {q \in Items(r) : q[1] \in reachable}}
    IN  IF more \subseteq reachable THEN reachable
        ELSE ReachableFix(r, reachable \cup more)
_remove_unreachable(init, r) ==
    LET reachable == ReachableFix(r, {init})
    IN  [n \in (DOMAIN r) \cap reachable |-> r[n]]

\* a clean-up that forgets the second pass
RemoveDeadOnly(init, r) == _remove_dead(r)
\* Grammar._remove_useless: dead first, unreachable second
_remove_useless(init, r) == _remove_unreachable(init, _remove_dead(r))

\* ------------------------------------------------- _rebuild_vanishing ----
\* the first loop calls del_rule(nterm, EmptyWord) for every nterm of the set
RebuildRaises(r, vanishing) ==
    \E nterm \in vanishing : del_rule_raises(r, nterm, EmptyWord)

DelEmptyWords(r, vanishing) ==
    LET left(n) == IF n \in vanishing THEN r[n] \ {EmptyWord} ELSE r[n]
    IN  [n \in {m \in DOMAIN r : left(m) # {}} |-> left(n)]

RemoveAt(deriv, pos) == SubSeq(deriv, 1, pos - 1) \o SubSeq(deriv, pos + 1, Len(deriv))

\* one turn of the while loop for the popped symbol v: every derivation with
\* one occurrence of v removed, unless that leaves nothing
RebuildPass(r, v) ==
    [nterm \in DOMAIN r |->
        r[nterm] \cup
        {nd \in UNION {{RemoveAt(deriv, pos) :
                            pos \in {k \in 1..Len(deriv) : deriv[k] = v}} :
                        deriv \in r[nterm]} : Len(nd) # 0}]

\* the while loop: v goes back into the set whenever a rule set grew; the
\* loop ends with the set empty.  The result is the closure of the rules
\* under removal of occurrences, whatever symbol pop() returns.
RECURSIVE RebuildLoop(_, _)
RebuildLoop(r, vanishing) ==
    IF vanishing = {} THEN r
    ELSE LET v == CHOOSE x \in vanishing : TRUE
             r2 == RebuildPass(r, v)
         IN  IF r2 # r THEN RebuildLoop(r2, vanishing)
             ELSE RebuildLoop(r2, vanishing \ {v})

\* Grammar._rebuild_vanishing, when the first loop does not raise
_rebuild_vanishing(r, vanishing) == RebuildLoop(DelEmptyWords(r, vanishing), vanishing)

\* the set object passed to _rebuild_vanishing is emptied by its while loop
VanishingAfterRebuild(vanishing) == {}

\* ------------------------------------------- _remove_chain_productions ----
IsChain(deriv) == Len(deriv) = 1 /\ IsNT(deriv[1])

DirectChainPairs(r) ==
    [L \in {p[1] : p \in {q \in Items(r) : IsChain(q[2])}} |->
        {d[1] : d \in {e \in r[L] : IsChain(e)}}]

RECURSIVE ChainClosure(_)
ChainClosure(chain_pairs) ==
    LET nxt == [L \in DOMAIN chain_pairs |->
                  chain_pairs[L] \cup
                  UNION {chain_pairs[R] : R \in chain_pairs[L] \cap DOMAIN chain_pairs}]
    IN  IF nxt = chain_pairs THEN chain_pairs ELSE ChainClosure(nxt)

\* body of the replacement loop for one pair (L, R); st.err names the
\* exception raised so far, st.r and st.keys are the rule map and its order
ChainReplace(st, L, R) ==
    IF st.err # "" THEN st
    ELSE IF del_rule_raises(st.r, L, <<R>>) THEN [st EXCEPT !.err = "KeyError"]
    ELSE LET r1 == del_rule(st.r, L, <<R>>)
             r2 == add_rules(r1, L, r1[R])
         IN  IF R \notin DOMAIN r1 THEN [st EXCEPT !.err = "KeyError"]
             ELSE [err |-> "", r |-> r2,
                   keys |-> KeyOrder(KeyOrder(st.keys, DOMAIN r1), DOMAIN r2)]

RECURSIVE ChainInner(_, _, _)
ChainInner(st, L, Rs) ==
    IF Rs = <<>> THEN st
    ELSE ChainInner(ChainReplace(st, L, Head(Rs)), L, Tail(Rs))

RECURSIVE ChainOuter(_, _, _)
ChainOuter(st, chain_pairs, Ls) ==
    IF Ls = <<>> THEN st
    ELSE ChainOuter(ChainInner(st, Head(Ls), Ascending(chain_pairs[Head(Ls)])),
                    chain_pairs, Tail(Ls))

\* Grammar._remove_chain_productions: chain_pairs gets its keys in the order
\* of the rule map
_remove_chain_productions(r, keys) ==
    LET chain_pairs == ChainClosure(DirectChainPairs(r))
    IN  ChainOuter([err |-> "", r |-> r, keys |-> keys], chain_pairs,
                   SelectSeq(keys, LAMBDA n : n \in DOMAIN chain_pairs))

\* ---------------------------------------------- _remove_left_recursion ----
\* pushes of one turn of the ordering loop, derivations visited in order perm
RECURSIVE OrderPushes(_, _)
OrderPushes(perm, ordered) ==
    IF perm = <<>> THEN <<>>
    ELSE SelectSeq(Head(perm), LAMBDA symb : IsNT(symb) /\ symb \notin ordered)
         \o OrderPushes(Tail(perm), ordered)

\* indirect step for A_i: the set new_derive_set
NewDeriveSet(r, order, A_i) ==
    UNION {IF IsNT(deriv[1])
           THEN IF order[deriv[1]] >= order[A_i] \/ deriv[1] \notin DOMAIN r
                THEN {deriv}
                ELSE {jderiv \o Tail(deriv) : jderiv \in r[deriv[1]]}
           ELSE {deriv} : deriv \in r[A_i]}

\* what one turn of the main loop raises, if anything
ProcessRaises(r, order, A_i) ==
    IF A_i \notin DOMAIN r THEN "KeyError"
    ELSE IF \E deriv \in r[A_i] : Len(deriv) = 0 THEN "IndexError"
    ELSE IF \E deriv \in r[A_i] : IsNT(deriv[1]) /\ deriv[1] \notin DOMAIN order
         THEN "KeyError"
    ELSE IF \E deriv \in NewDeriveSet(r, order, A_i) : Len(deriv) = 0 THEN "IndexError"
    ELSE ""

Alphas(nds, A_i) == {Tail(deriv) : deriv \in {d \in nds : d[1] = A_i}}
Betas(nds, A_i) == {d \in nds : d[1] # A_i}

\* one turn of the main loop for A_i with the fresh non-terminal A_dot; the
\* rules change only when there are alphas
ProcessNonTerminal(r, order, A_i, A_dot) ==
    LET nds == NewDeriveSet(r, order, A_i)
        alphas == Alphas(nds, A_i)
        betas == Betas(nds, A_i)
    IN  IF alphas = {} THEN r
        ELSE [n \in (DOMAIN r) \cup {A_dot} |->
                IF n = A_dot THEN alphas \cup {Append(alpha, A_dot) : alpha \in alphas}
                ELSE IF n = A_i THEN betas \cup {Append(beta, A_dot) : beta \in betas}
                ELSE r[n]]

\* ---------------------------------------------------------- prefix tree ----
\* A PrefixNode (an insertion-ordered dict) is a sequence of entries
\* [k |-> key, t |-> subtree]; None is the empty sequence (a dict that is a
\* node of the tree is never empty).  The key () of the empty derivation is
\* EmptyKey.
None == <<>>
EmptyKey == 2 * TermBase

TreeHas(prefixes, key) == \E i \in 1..Len(prefixes) : prefixes[i].k = key
TreeGet(prefixes, key) ==
    prefixes[CHOOSE i \in 1..Len(prefixes) : prefixes[i].k = key].t
\* prefixes[key] = sub: an existing key keeps its place, a new one goes last
TreeSet(prefixes, key, sub) ==
    IF TreeHas(prefixes, key)
    THEN [i \in 1..Len(prefixes) |->
            IF prefixes[i].k = key THEN [k |-> key, t |-> sub] ELSE prefixes[i]]
    ELSE Append(prefixes, [k |-> key, t |-> sub])

\* analyze_derivation(prefixes, deriv): the tree after the insertion
RECURSIVE analyze_derivation(_, _)
analyze_derivation(prefixes, deriv) ==
    IF Len(deriv) = 0 THEN TreeSet(prefixes, EmptyKey, None)
    ELSE IF Len(deriv) = 1 THEN TreeSet(prefixes, deriv[1], None)
    ELSE LET first == deriv[1] IN
         IF TreeHas(prefixes, first)
         THEN LET node == IF TreeGet(prefixes, first) = None
                          THEN <<[k |-> EmptyKey, t |-> None]>>
                          ELSE TreeGet(prefixes, first)
              IN  TreeSet(prefixes, first, analyze_derivation(node, Tail(deriv)))
         ELSE TreeSet(prefixes, first, analyze_derivation(<<>>, Tail(deriv)))

\* the loop of _factorize that inserts the derivations, in the order perm
RECURSIVE BuildTree(_, _)
BuildTree(prefixes, perm) ==
    IF perm = <<>> THEN prefixes
    ELSE BuildTree(analyze_derivation(prefixes, Head(perm)), Tail(perm))

\* separate_prefixes(g, layer, prefix, root, common_depth, nterm_sequence):
\* st carries the rules of g and their order, the next value of
\* nterm_sequence and the list of the values drawn from it
RECURSIVE separate_prefixes(_, _, _, _, _)
RECURSIVE SeparateChildren(_, _, _, _, _, _)
separate_prefixes(st, layer, prefix, root, common_depth) ==
    IF root = None
    THEN [st EXCEPT !.g = add_rule(st.g, layer, prefix),
                    !.keys = KeyOrder(st.keys, DOMAIN st.g \cup {layer})]
    ELSE LET cd == IF common_depth = -1 THEN 1
                   ELSE IF Len(root) = 1 THEN common_depth + 1 ELSE 0
             new_layer == IF cd >= 1 THEN layer ELSE st.next
             st1 == IF cd >= 1 THEN st
                    ELSE [g |-> add_rule(st.g, layer, Append(prefix, st.next)),
                          keys |-> KeyOrder(st.keys, DOMAIN st.g \cup {layer}),
                          next |-> st.next + 1,
                          drawn |-> Append(st.drawn, st.next)]
         IN  SeparateChildren(st1, new_layer, prefix, root, 1, cd)
SeparateChildren(st, new_layer, prefix, root, i, cd) ==
    IF i > Len(root) THEN st
    ELSE LET symb == root[i].k
             t_symb == IF symb = EmptyKey THEN EmptyWord ELSE <<symb>>
             new_prefix == IF cd >= 1 THEN prefix \o t_symb ELSE t_symb
         IN  SeparateChildren(
                 separate_prefixes(st, new_layer, new_prefix, root[i].t, cd),
                 new_layer, prefix, root, i + 1, cd)

\* body of the loop of _factorize for nterm: a fresh iterator
\* itertools.count(start=next_nterm) is made for every nterm
FactorizeOne(g, gkeys, drawn, nterm, perm, next_nterm) ==
    separate_prefixes([g |-> g, keys |-> gkeys, next |-> next_nterm, drawn |-> drawn],
                      nterm, EmptyWord, BuildTree(<<>>, perm), -1)

\* ------------------------------------------------ FIRST index, checker ----
FirstKey(deriv) == IF Len(deriv) = 0 THEN EmptyStr ELSE deriv[1]

\* Grammar.build_first
build_first(r) ==
    LET indexed == {p \in Items(r) : ~(Len(p[2]) > 0 /\ IsNT(p[2][1]))}
    IN  [t \in {<<p[1], FirstKey(p[2])>> : p \in indexed} |->
            {p[2] : p \in {q \in indexed : q[1] = t[1] /\ FirstKey(q[2]) = t[2]}}]

\* position of the first non-terminal of predicted, 0 when there is none
FirstNTPos(predicted) ==
    IF \E k \in 1..Len(predicted) : IsNT(predicted[k])
    THEN Min({k \in 1..Len(predicted) : IsNT(predicted[k])})
    ELSE 0

\* the terminals predicted[1..n] equal the first n characters of word
MatchesPrefix(word, predicted, n) ==
    \A k \in 1..n : k <= Len(word) /\ predicted[k] = word[k]

\* outcome of trying a set of alternatives one after the other in some
\* order, outs being the sets of outcomes the alternatives can have
TryAll(outs) ==
    (IF \E o \in outs : "true" \in o THEN {"true"} ELSE {})
    \cup (IF \E o \in outs : "RecursionError" \in o THEN {"RecursionError"} ELSE {})
    \cup (IF \A o \in outs : "false" \in o THEN {"false"} ELSE {})

\* a checker that trusts the FIRST index alone
UnpredictedSkipped(r, symb, prediction) == {}
\* the second loop over self.__rules[symb]: the derivations not in prediction
Unpredicted(r, symb, prediction) == r[symb] \ prediction

\* Grammar.recursive_descent_parsing: the set of outcomes the call can have,
\* frames being the number of frames the interpreter still allows
RECURSIVE recursive_descent_parsing(_, _, _, _, _)
recursive_descent_parsing(r, word, predicted, first, frames) ==
    IF frames = 0 THEN {"RecursionError"}
    ELSE IF Len(predicted) = 0
    THEN {IF Len(word) = 0 THEN "true" ELSE "false"}
    ELSE LET i == FirstNTPos(predicted) IN
         IF i = 0
         THEN {IF MatchesPrefix(word, predicted, Len(predicted))
                  /\ Len(predicted) = Len(word) THEN "true" ELSE "false"}
         ELSE IF ~MatchesPrefix(word, predicted, i - 1) THEN {"false"}
         ELSE LET symb == predicted[i] IN
              IF symb \notin DOMAIN r THEN {"false"}
              ELSE LET word_first == IF i <= Len(word) THEN word[i] ELSE EmptyStr
                       pair == <<symb, word_first>>
                       prediction == IF pair \in DOMAIN first THEN first[pair] ELSE {}
                       rest == SubSeq(predicted, i + 1, Len(predicted))
                       sub(derivation) ==
                           recursive_descent_parsing(r, SubSeq(word, i, Len(word)),
                               derivation \o rest, first, frames - 1)
                       one == TryAll({sub(d) : d \in prediction})
                       two == TryAll({sub(d) : d \in Unpredicted(r, symb, prediction)})
                   IN  (one \ {"false"}) \cup (IF "false" \in one THEN two ELSE {})

\* Grammar.check_word(word, first)
check_word(init, r, word, first) ==
    recursive_descent_parsing(r, word, <<init>>, first, MaxDepth)

\* ------------------------------------------------------------ min_nterm ----
\* the orders in which Grammar.__iter__ can yield the rules: key after key
\* in the order of the dict, the derivations of one key in any order
RECURSIVE IterOrders(_, _)
IterOrders(r, keys) ==
    IF keys = <<>> THEN {<<>>}
    ELSE {[k \in 1..Len(p) |-> <<Head(keys), p[k]>>] \o rest :
             p \in Perms(r[Head(keys)]), rest \in IterOrders(r, Tail(keys))}

RECURSIVE MinSymbols(_, _, _)
MinSymbols(minimal, derivation, k) ==
    IF k > Len(derivation) THEN minimal
    ELSE MinSymbols(IF IsNT(derivation[k]) /\ derivation[k] < minimal
                    THEN derivation[k] ELSE minimal, derivation, k + 1)

RECURSIVE MinLoop(_, _)
MinLoop(minimal, items) ==
    IF items = <<>> THEN minimal
    ELSE LET nterm == Head(items)[1]
             m1 == IF nterm > minimal THEN nterm ELSE minimal
         IN  MinLoop(MinSymbols(m1, Head(items)[2], 1), Tail(items))

\* Grammar.min_nterm, the rules being visited in the order items
min_nterm(init, items) == MinLoop(init, items)

\* ------------------------------------------------------- loaded grammars ----
Symbols == LoaderNT \cup Terminals
Derivations == UNION {[1..k -> Symbols] : k \in 0..MaxLen}
Words == UNION {[1..k -> Terminals] : k \in 0..MaxWord}
AllRules == {<<l, d>> : l \in LoaderNT, d \in Derivations}

RECURSIVE Weight(_)
Weight(rs) == IF rs = {} THEN 0
              ELSE LET x == CHOOSE y \in rs : TRUE IN Len(x[2]) + Weight(rs \ {x})

\* the sets of at most k rules with at most syms right-hand-side symbols
RECURSIVE RuleSets(_, _)
RuleSets(k, syms) ==
    IF k = 0 THEN {{}}
    ELSE LET prev == RuleSets(k - 1, syms)
         IN  prev \cup {c \in {rs \cup {x} : rs \in prev, x \in AllRules} :
                          Weight(c) <= syms}

\* parse_grammar numbers the non-terminals 0,1,2,.. in the order in which it
\* first meets them, left-hand side before right-hand side, line after line.
\* NumberAfter is the count of numbers handed out after a rule is read when
\* seen numbers were handed out before it, or -1 when the rule cannot be read
\* at that point.
RECURSIVE NumberWalk(_, _)
NumberWalk(nts, seen) ==
    IF nts = <<>> THEN seen
    ELSE IF Head(nts) > seen THEN -1
    ELSE NumberWalk(Tail(nts), IF Head(nts) = seen THEN seen + 1 ELSE seen)
NumberAfter(rule, seen) ==
    NumberWalk(<<rule[1]>> \o SelectSeq(rule[2], IsNT), seen)

RECURSIVE NumberedUpTo(_, _)
NumberedUpTo(rs, seen) ==
    LET nxt == Max({seen} \cup {NumberAfter(x, seen) : x \in rs})
    IN  IF nxt = seen THEN seen ELSE NumberedUpTo(rs, nxt)

\* The key orders parse_grammar can give the rule map of the rule set rs: a
\* key is inserted when the first line with that left-hand side is read,
\* and lines of keys already inserted can come anywhere after it.
RECURSIVE KeyOrders(_, _, _)
KeyOrders(rs, opened, seen) ==
    LET seen1 == NumberedUpTo({x \in rs : x[1] \in Range(opened)}, seen)
        rest == {x[1] : x \in rs} \ Range(opened)
    IN  IF rest = {}
        THEN IF \A x \in rs : NumberAfter(x, seen1) # -1 THEN {opened} ELSE {}
        ELSE UNION {KeyOrders(rs, Append(opened, n), seen1) :
                      n \in {m \in rest : \E x \in rs :
                                x[1] = m /\ NumberAfter(x, seen1) # -1}}

ToRules(rs) == [n \in {x[1] : x \in rs} |-> {x[2] : x \in {y \in rs : y[1] = n}}]

\* the grammars parse_grammar can return: rule map r, its key order keys
Loaded(maxrules, maxsyms) ==
    UNION {{[r |-> ToRules(rs), keys |-> ko] : ko \in KeyOrders(rs, <<>>, 0)} :
             rs \in {c \in RuleSets(maxrules, maxsyms) :
                       \A x \in c : NumberAfter(x, NumberedUpTo(c, 0)) # -1}}


\* ------------------------------------------------- reference notions ----
\* Definitions of the notions the properties are stated in; they model no
\* code.  Derives(r, w, d, a, b): the derivation d derives the characters
\* a+1..b of the word w, tab being the triples <<n, a, b>> already known.
RECURSIVE DerivesWith(_, _, _, _, _)
DerivesWith(tab, w, d, a, b) ==
    IF d = <<>> THEN a = b
    ELSE \E m \in a..b :
            /\ IF IsNT(d[1]) THEN <<d[1], a, m>> \in tab
               ELSE m = a + 1 /\ w[m] = d[1]
            /\ DerivesWith(tab, w, Tail(d), m, b)

RECURSIVE DerivationTable(_, _, _)
DerivationTable(r, w, tab) ==
    LET more == {t \in (DOMAIN r) \X (0..Len(w)) \X (0..Len(w)) :
                    /\ t[2] <= t[3]
                    /\ t \notin tab
                    /\ \E d \in r[t[1]] : DerivesWith(tab, w, d, t[2], t[3])}
    IN  IF more = {} THEN tab ELSE DerivationTable(r, w, tab \cup more)

\* the word w is derivable from the non-terminal start in the grammar r
InLanguage(start, r, w) == <<start, 0, Len(w)>> \in DerivationTable(r, w, {})

\* the non-terminals that derive the empty word
Nullable(r) == {n \in DOMAIN r : InLanguage(n, r, <<>>)}

\* B can be the leftmost symbol of a sentential form derived from A in one step
LeftEdges(r) ==
    LET nullable == Nullable(r)
    IN  {e \in (DOMAIN r) \X UNION {NTsOf(p[2]) : p \in Items(r)} :
            \E d \in r[e[1]] : \E k \in 1..Len(d) :
                /\ d[k] = e[2]
                /\ \A j \in 1..(k - 1) : d[j] \in nullable}

RECURSIVE LeftReach(_, _)
LeftReach(edges, from) ==
    LET more == {e[2] : e \in {f \in edges : f[1] \in from}} \ from
    IN  IF more = {} THEN from ELSE LeftReach(edges, from \cup more)

\* A =>+ A beta by leftmost expansions, for some A with rules
LeftRecursiveAt(r, A) ==
    LET edges == LeftEdges(r)
    IN  A \in LeftReach(edges, {e[2] : e \in {f \in edges : f[1] = A}})
         /\ \E f \in edges : f[1] = A
LeftRecursive(r) == \E A \in DOMAIN r : LeftRecursiveAt(r, A)

\* ------------------------------------------------------------------ state ----
VARIABLES
    pc,            \* where prepare_for_checking or the driver stands
    initial,       \* Grammar.__inital of the grammar g being prepared
    rules,         \* Grammar.__rules of g
    keys,          \* the keys of Grammar.__rules in insertion order
    loaded,        \* the rules as parse_grammar returned them (history)
    vanishing,     \* the set object `vanishing` of prepare_for_checking
    branch,        \* "recursive" or "factor" once the pipeline has branched
    err,           \* name of the exception that ended the run, "" if none
    queue, order, okeys, i, next_nonterm, pos,   \* _remove_left_recursion
    fg, fkeys, pending, drawn,                    \* _factorize
    word, verdict,                                \* check_word
    minimal, maximal,                             \* min_nterm, max_nterm
    stage,         \* pc of the step that ran last (history)
    before,        \* Grammar.__rules before the step that ran last (history)
    tree,          \* the prefix tree of the last turn of _factorize (history)
    round,         \* how many times prepare_for_checking was called on g
    once,          \* start and rules the first call returned (history)
    op, calls,     \* the last add_rule / del_rule call, and how many were made
    other,         \* the right operand of ==
    eq_so, eq_os   \* results of self == other and other == self

vars == <<pc, initial, rules, keys, loaded, vanishing, branch, err,
          queue, order, okeys, i, next_nonterm, pos,
          fg, fkeys, pending, drawn, word, verdict, minimal, maximal,
          stage, before, tree, round, once, op, calls, other, eq_so, eq_os>>

lrvars == <<queue, order, okeys, i, next_nonterm, pos>>
fvars == <<fg, fkeys, pending, drawn>>
qvars == <<word, verdict, minimal, maximal>>
svars == <<op, calls>>
evars == <<other, eq_so, eq_os>>

NoOrder == [n \in {} |-> 0]

NoCall == [name |-> "none", nterm |-> 0, deriv |-> <<>>]
NoGrammar == [initial |-> 0, rules |-> EmptyRules]

\* the values of the variables no operation has touched yet
Untouched ==
    /\ stage = "none" /\ before = EmptyRules /\ tree = <<>>
    /\ round = 1 /\ once = NoGrammar
    /\ op = NoCall /\ calls = 0
    /\ other = NoGrammar /\ eq_so = "none" /\ eq_os = "none"

\* no call of the pipeline or of the checker is under way
Idle ==
    /\ vanishing = {}
    /\ branch = "none"
    /\ err = ""
    /\ queue = <<>> /\ order = NoOrder /\ okeys = <<>> /\ i = 0
    /\ next_nonterm = 0 /\ pos = 0
    /\ fg = EmptyRules /\ fkeys = <<>> /\ pending = <<>> /\ drawn = <<>>
    /\ word = <<>> /\ verdict = "none"
    /\ minimal = 0 /\ maximal = 0

InitWith(grammars) ==
    /\ \E g \in grammars : rules = g.r /\ keys = g.keys
    /\ loaded = rules
    /\ initial = 0
    /\ pc = "loaded"
    /\ Untouched
    /\ Idle

Init == InitWith(Loaded(MaxRules, MaxSyms))
InitWide == InitWith(Loaded(MaxRulesWide, MaxSymsWide))

\* an exception leaves prepare_for_checking: the driver ends
Raise(e) ==
    /\ pc' = "error"
    /\ err' = e

\* ----------------------------------------------- prepare_for_checking ----
\* lines 678-680 and the entry of the branch taken
Prepare ==
    /\ pc = "loaded"
    /\ vanishing' = _vanishing(rules)
    /\ IF _has_left_recursion(rules, vanishing')
       THEN /\ branch' = "recursive"
            /\ pc' = "rebuild"
            /\ UNCHANGED fvars
       ELSE /\ branch' = "factor"
            /\ pc' = "factorize"
            /\ fg' = EmptyRules
            /\ fkeys' = <<>>
            /\ pending' = keys
            /\ drawn' = <<>>
    /\ UNCHANGED <<initial, rules, keys, loaded, err, lrvars, qvars>>
    /\ stage' = pc
    /\ before' = rules
    /\ UNCHANGED <<tree, round, once, svars, evars>>

\* g._rebuild_vanishing(vanishing)
RebuildVanishing ==
    /\ pc = "rebuild"
    /\ IF RebuildRaises(rules, vanishing)
       THEN /\ Raise("KeyError")
            /\ UNCHANGED <<rules, keys, vanishing>>
       ELSE /\ rules' = _rebuild_vanishing(rules, vanishing)
            /\ keys' = KeyOrder(keys, DOMAIN rules')
            /\ vanishing' = VanishingAfterRebuild(vanishing)
            /\ pc' = "chain"
            /\ err' = err
    /\ UNCHANGED <<initial, loaded, branch, lrvars, fvars, qvars>>
    /\ stage' = pc
    /\ before' = rules
    /\ UNCHANGED <<tree, round, once, svars, evars>>

\* ._remove_chain_productions()
RemoveChainProductions ==
    /\ pc = "chain"
    /\ LET st == _remove_chain_productions(rules, keys)
       IN  IF st.err # ""
           THEN Raise(st.err) /\ UNCHANGED <<rules, keys>>
           ELSE rules' = st.r /\ keys' = st.keys /\ pc' = "useless" /\ err' = err
    /\ UNCHANGED <<initial, loaded, vanishing, branch, lrvars, fvars, qvars>>
    /\ stage' = pc
    /\ before' = rules
    /\ UNCHANGED <<tree, round, once, svars, evars>>

\* ._remove_useless(), then the entry of _remove_left_recursion (lines 544-553)
RemoveUseless ==
    /\ pc = "useless"
    /\ rules' = _remove_useless(initial, rules)
    /\ keys' = KeyOrder(keys, DOMAIN rules')
    /\ pc' = "order"
    /\ queue' = <<initial>>
    /\ order' = NoOrder
    /\ okeys' = <<>>
    /\ i' = 0
    /\ UNCHANGED <<initial, loaded, vanishing, branch, err, next_nonterm, pos,
                   fvars, qvars>>
    /\ stage' = pc
    /\ before' = rules
    /\ UNCHANGED <<tree, round, once, svars, evars>>

\* one turn of the ordering loop of _remove_left_recursion (lines 554-561);
\* after the last turn, line 563
OrderStep ==
    /\ pc = "order"
    /\ queue # <<>>
    /\ LET nterm == queue[Len(queue)]
           popped == SubSeq(queue, 1, Len(queue) - 1)
           order1 == [n \in (DOMAIN order) \cup {nterm} |->
                        IF n = nterm THEN i ELSE order[n]]
       IN  IF nterm \notin DOMAIN rules
           THEN /\ Raise("KeyError")
                /\ UNCHANGED lrvars
           ELSE /\ \E perm \in Perms(rules[nterm]) :
                      queue' = popped \o OrderPushes(perm, DOMAIN order1)
                /\ order' = order1
                /\ okeys' = IF nterm \in DOMAIN order THEN okeys ELSE Append(okeys, nterm)
                /\ i' = i + 1
                /\ IF queue' = <<>>
                   THEN /\ pc' = "main"
                        /\ next_nonterm' = max_nterm(initial, rules) + 1
                        /\ pos' = 1
                   ELSE /\ pc' = pc
                        /\ UNCHANGED <<next_nonterm, pos>>
                /\ err' = err
    /\ UNCHANGED <<initial, rules, keys, loaded, vanishing, branch, fvars, qvars>>
    /\ stage' = pc
    /\ before' = rules
    /\ UNCHANGED <<tree, round, once, svars, evars>>

\* one turn of the main loop of _remove_left_recursion (lines 565-616), for
\* the pos-th key of the dict order
ProcessStep ==
    /\ pc = "main"
    /\ pos <= Len(okeys)
    /\ LET A_i == okeys[pos]
           e == ProcessRaises(rules, order, A_i)
       IN  IF e # ""
           THEN /\ Raise(e)
                /\ UNCHANGED <<rules, keys, next_nonterm, pos>>
           ELSE /\ rules' = ProcessNonTerminal(rules, order, A_i, next_nonterm)
                /\ keys' = KeyOrder(keys, DOMAIN rules')
                /\ next_nonterm' = IF Alphas(NewDeriveSet(rules, order, A_i), A_i) # {}
                                   THEN next_nonterm + 1 ELSE next_nonterm
                /\ pos' = pos + 1
                /\ UNCHANGED <<pc, err>>
    /\ UNCHANGED <<initial, loaded, vanishing, branch, queue, order, okeys, i,
                   fvars, qvars>>
    /\ stage' = pc
    /\ before' = rules
    /\ UNCHANGED <<tree, round, once, svars, evars>>

\* lines 704-708 and 715.  The restored rule new_start -> start is added as
\* the integer g.__inital, not as a derivation, and _remove_dead then
\* iterates over it: TypeError.
FinishRecursive ==
    /\ pc = "main"
    /\ pos > Len(okeys)
    /\ IF initial \in vanishing
       THEN /\ \E items \in IterOrders(rules, keys) :
                  initial' = min_nterm(initial, items) - 1
            /\ Raise("TypeError")
            /\ UNCHANGED <<rules, keys>>
       ELSE /\ rules' = _remove_useless(initial, rules)
            /\ keys' = KeyOrder(keys, DOMAIN rules')
            /\ pc' = "done"
            /\ UNCHANGED <<initial, err>>
    /\ UNCHANGED <<loaded, vanishing, branch, lrvars, fvars, qvars>>
    /\ stage' = pc
    /\ before' = rules
    /\ UNCHANGED <<tree, round, once, svars, evars>>

\* one turn of the loop of _factorize (lines 643-647), for the next key of
\* the rule map
FactorizeStep ==
    /\ pc = "factorize"
    /\ pending # <<>>
    /\ \E perm \in Perms(rules[Head(pending)]) :
          LET st == FactorizeOne(fg, fkeys, drawn, Head(pending), perm,
                                 max_nterm(initial, rules) + 1)
          IN  /\ fg' = st.g
              /\ fkeys' = st.keys
              /\ drawn' = st.drawn
              /\ tree' = BuildTree(<<>>, perm)
    /\ pending' = Tail(pending)
    /\ UNCHANGED <<pc, initial, rules, keys, loaded, vanishing, branch, err,
                   lrvars, qvars>>
    /\ stage' = pc
    /\ before' = rules
    /\ UNCHANGED <<round, once, svars, evars>>

\* _factorize returns g = Grammar(), whose start is the default 0; line 715
FinishFactor ==
    /\ pc = "factorize"
    /\ pending = <<>>
    /\ initial' = 0
    /\ rules' = _remove_useless(0, fg)
    /\ keys' = KeyOrder(fkeys, DOMAIN rules')
    /\ pc' = "done"
    /\ UNCHANGED <<loaded, vanishing, branch, err, lrvars, fvars, qvars>>
    /\ stage' = pc
    /\ before' = rules
    /\ UNCHANGED <<tree, round, once, svars, evars>>

\* g = g.prepare_for_checking() once more, on the grammar the call returned
PrepareAgain ==
    /\ pc = "done"
    /\ round < MaxRounds
    /\ \A n \in DOMAIN rules : Cardinality(rules[n]) <= MaxFanout
    /\ round' = round + 1
    /\ once' = IF round = 1 THEN [initial |-> initial, rules |-> rules] ELSE once
    /\ pc' = "loaded"
    /\ stage' = pc
    /\ before' = rules
    /\ UNCHANGED <<initial, rules, keys, loaded, vanishing, branch, err, lrvars,
                   fvars, qvars, tree, svars, evars>>

\* ---------------------------------------------------------------- driver ----
\* app.py: first = g.build_first(), then g.check_word(line, first) on the
\* prepared grammar
CheckWord ==
    /\ pc = "done"
    /\ \E w \in Words :
          /\ word' = w
          /\ verdict' \in check_word(initial, rules, w, build_first(rules))
    /\ pc' = "checked"
    /\ UNCHANGED <<initial, rules, keys, loaded, vanishing, branch, err, lrvars,
                   fvars, minimal, maximal>>
    /\ stage' = pc
    /\ before' = rules
    /\ UNCHANGED <<tree, round, once, svars, evars>>

\* the same two calls on a grammar as loaded, by a caller that keeps the
\* precondition of the checker (no left recursion)
CheckLoaded ==
    /\ pc = "loaded"
    /\ ~LeftRecursive(rules)
    /\ \E w \in Words :
          /\ word' = w
          /\ verdict' \in check_word(initial, rules, w, build_first(rules))
    /\ pc' = "checked_loaded"
    /\ UNCHANGED <<initial, rules, keys, loaded, vanishing, branch, err, lrvars,
                   fvars, minimal, maximal>>
    /\ stage' = pc
    /\ before' = rules
    /\ UNCHANGED <<tree, round, once, svars, evars>>

\* g.min_nterm() and g.max_nterm() on a grammar as loaded
MinMax ==
    /\ pc = "loaded"
    /\ \E items \in IterOrders(rules, keys) :
          minimal' = min_nterm(initial, items)
    /\ maximal' = max_nterm(initial, rules)
    /\ pc' = "asked"
    /\ UNCHANGED <<initial, rules, keys, loaded, vanishing, branch, err, lrvars,
                   fvars, word, verdict>>
    /\ stage' = pc
    /\ before' = rules
    /\ UNCHANGED <<tree, round, once, svars, evars>>

Next ==
    \/ Prepare
    \/ RebuildVanishing
    \/ RemoveChainProductions
    \/ RemoveUseless
    \/ OrderStep
    \/ ProcessStep
    \/ FinishRecursive
    \/ FactorizeStep
    \/ FinishFactor
    \/ PrepareAgain
    \/ CheckWord
    \/ CheckLoaded
    \/ MinMax

Spec == Init /\ [][Next]_vars

\* the same program on larger loaded grammars
SpecWide == InitWide /\ [][Next]_vars

\* ------------------------------------------------- add_rule, del_rule ----
\* a caller builds a Grammar() by add_rule and del_rule calls
StoreDerivs == UNION {[1..k -> Symbols] : k \in 0..MaxStoreLen}

InitStore ==
    /\ rules = EmptyRules /\ keys = <<>>
    /\ loaded = EmptyRules
    /\ initial = 0
    /\ pc = "store"
    /\ Untouched
    /\ Idle

\* g.add_rule(nterm, deriv)
AddRule ==
    /\ pc = "store"
    /\ calls < MaxCalls
    /\ \E nterm \in LoaderNT, deriv \in StoreDerivs :
          /\ rules' = add_rule(rules, nterm, deriv)
          /\ op' = [name |-> "add_rule", nterm |-> nterm, deriv |-> deriv]
    /\ keys' = KeyOrder(keys, DOMAIN rules')
    /\ err' = ""
    /\ calls' = calls + 1
    /\ stage' = pc
    /\ before' = rules
    /\ UNCHANGED <<pc, initial, loaded, vanishing, branch, lrvars, fvars, qvars,
                   tree, round, once, evars>>

\* g.del_rule(nterm, deriv); the KeyError is the caller's to handle
DelRule ==
    /\ pc = "store"
    /\ calls < MaxCalls
    /\ \E nterm \in LoaderNT, deriv \in StoreDerivs :
          /\ IF del_rule_raises(rules, nterm, deriv)
             THEN err' = "KeyError" /\ UNCHANGED rules
             ELSE err' = "" /\ rules' = del_rule(rules, nterm, deriv)
          /\ op' = [name |-> "del_rule", nterm |-> nterm, deriv |-> deriv]
    /\ keys' = KeyOrder(keys, DOMAIN rules')
    /\ calls' = calls + 1
    /\ stage' = pc
    /\ before' = rules
    /\ UNCHANGED <<pc, initial, loaded, vanishing, branch, lrvars, fvars, qvars,
                   tree, round, once, evars>>

NextStore == AddRule \/ DelRule

SpecStore == InitStore /\ [][NextStore]_vars

\* ------------------------------------------------------------- __eq__ ----
\* two grammars built by a caller are compared, in both directions
InitEq ==
    /\ \E rs \in RuleSets(MaxEqRules, MaxEqSyms) :
          rules = ToRules(rs) /\ keys = Ascending(DOMAIN rules)
    /\ initial \in LoaderNT
    /\ \E rs \in RuleSets(MaxEqRules, MaxEqSyms), init \in LoaderNT :
          other = [initial |-> init, rules |-> ToRules(rs)]
    /\ loaded = rules
    /\ pc = "pair"
    /\ stage = "none" /\ before = EmptyRules /\ tree = <<>>
    /\ round = 1 /\ once = NoGrammar
    /\ op = NoCall /\ calls = 0
    /\ eq_so = "none" /\ eq_os = "none"
    /\ Idle

\* self == other
EqSelfOther ==
    /\ pc = "pair"
    /\ eq_so = "none"
    /\ eq_so' = IF __eq__([initial |-> initial, rules |-> rules], other)
                THEN "true" ELSE "false"
    /\ stage' = pc
    /\ before' = rules
    /\ UNCHANGED <<pc, initial, rules, keys, loaded, vanishing, branch, err,
                   lrvars, fvars, qvars, tree, round, once, svars, other, eq_os>>

\* other == self
EqOtherSelf ==
    /\ pc = "pair"
    /\ eq_os = "none"
    /\ eq_os' = IF __eq__(other, [initial |-> initial, rules |-> rules])
                THEN "true" ELSE "false"
    /\ stage' = pc
    /\ before' = rules
    /\ UNCHANGED <<pc, initial, rules, keys, loaded, vanishing, branch, err,
                   lrvars, fvars, qvars, tree, round, once, svars, other, eq_so>>

NextEq == EqSelfOther \/ EqOtherSelf

SpecEq == InitEq /\ [][NextEq]_vars

\* ------------------------------------------------------------ properties ----
\* the non-terminals of r that derive some string of terminals
RECURSIVE ProductiveFrom(_, _)
ProductiveFrom(r, known) ==
    LET more == {n \in (DOMAIN r) \ known : \E d \in r[n] : NTsOf(d) \subseteq known}
    IN  IF more = {} THEN known ELSE ProductiveFrom(r, known \cup more)
Productive(r) == ProductiveFrom(r, {})

\* the non-terminals that occur in a sentential form derived from start
RECURSIVE ReachableFrom(_, _)
ReachableFrom(r, known) ==
    LET more == UNION {UNION {NTsOf(d) : d \in r[n]} : n \in known \cap DOMAIN r} \ known
    IN  IF more = {} THEN known ELSE ReachableFrom(r, known \cup more)

RhsNT(r) == UNION {NTsOf(p[2]) : p \in Items(r)}
EpsilonLhs(r) == {n \in DOMAIN r : EmptyWord \in r[n]}

\* C1: a word is accepted by the prepared grammar exactly when it is
\* derivable from the start symbol of the grammar as loaded.
C1_LanguagePreserved ==
    (pc = "checked" /\ round = 1)
        => ((verdict = "true") <=> InLanguage(0, loaded, word))

\* C2: when the start symbol is in the vanishing set of the loaded grammar,
\* the prepared grammar accepts the empty word.
C2_EmptyWordAccepted ==
    (pc = "checked" /\ round = 1 /\ word = EmptyWord /\ 0 \in _vanishing(loaded))
        => verdict = "true"

\* C3: no non-terminal with rules in a prepared grammar is left-recursive,
\* directly, indirectly or through vanishing prefixes.
C3_NoLeftRecursion ==
    pc = "done" => \A A \in DOMAIN rules : ~LeftRecursiveAt(rules, A)

\* C4: prepare_for_checking raises no error on a loaded grammar.
C4_PrepareTotal == round = 1 => err = ""

\* C5: check_word on a prepared grammar returns true or false; it does not
\* recurse until the interpreter gives up.
C5_CheckWordReturns == pc = "checked" => verdict \in {"true", "false"}

\* C6: on a grammar without left recursion, with the FIRST index of that
\* grammar, check_word returns true exactly for the derivable words, the
\* rules that start with a non-terminal included.
C6_CheckWordDecides ==
    (pc \in {"checked", "checked_loaded"} /\ ~LeftRecursive(rules))
        => verdict = IF InLanguage(initial, rules, word) THEN "true" ELSE "false"
C6_Witness ==
    /\ pc = "checked_loaded"
    /\ verdict = "true"
    /\ word # EmptyWord
    /\ initial \in DOMAIN rules
    /\ \A d \in rules[initial] : Len(d) > 0 /\ IsNT(d[1])

\* C7: in a prepared grammar every non-terminal with rules is reachable from
\* the start symbol and derives a string of terminals, and every
\* non-terminal of a right-hand side has rules.
C7_NoUselessSymbols ==
    pc = "done" =>
        /\ DOMAIN rules \subseteq ReachableFrom(rules, {initial})
        /\ DOMAIN rules \subseteq Productive(rules)
        /\ RhsNT(rules) \subseteq DOMAIN rules
C7_Witness ==
    /\ pc = "done"
    /\ DOMAIN rules # {}
    /\ (DOMAIN loaded) \ (DOMAIN rules) # {}
    /\ (DOMAIN loaded) \ ReachableFrom(loaded, {0}) # {}

\* C8: a prepared grammar has no rule with an empty right-hand side, or has
\* exactly one, for the start symbol, which is on no right-hand side.
C8_EpsilonPlacement ==
    pc = "done" =>
        \/ EpsilonLhs(rules) = {}
        \/ EpsilonLhs(rules) = {initial} /\ initial \notin RhsNT(rules)

\* C9: the fresh non-terminals drawn in one factoring pass differ from each
\* other and from every non-terminal of the grammar being factored.
C9_FreshDistinct ==
    pc = "factorize" =>
        \A j \in 1..Len(drawn) :
            /\ drawn[j] \notin AllNT(initial, rules)
            /\ \A k \in 1..Len(drawn) : j # k => drawn[j] # drawn[k]

\* C10: min_nterm returns the smallest and max_nterm the largest
\* non-terminal of the grammar, so min_nterm() - 1 is no non-terminal of it.
C10_MinMaxNterm ==
    pc = "asked" =>
        /\ minimal = Min(AllNT(initial, rules))
        /\ maximal = Max(AllNT(initial, rules))
        /\ minimal - 1 \notin AllNT(initial, rules)

\* C11: after any add_rule and del_rule calls no key of the rule map has an
\* empty set; adding a rule that is there changes nothing; deleting the last
\* derivation of a non-terminal removes its key; deleting a rule that is not
\* there raises an error and leaves the rule map as it was.
C11_StoreInvariant ==
    pc = "store" =>
        /\ \A n \in DOMAIN rules : rules[n] # {}
        /\ op.name = "add_rule" =>
              /\ err = ""
              /\ Items(rules) = Items(before) \cup {<<op.nterm, op.deriv>>}
        /\ op.name = "del_rule" =>
              IF <<op.nterm, op.deriv>> \in Items(before)
              THEN err = "" /\ Items(rules) = Items(before) \ {<<op.nterm, op.deriv>>}
              ELSE err = "KeyError" /\ rules = before
C11_Witness ==
    /\ pc = "store"
    /\ op.name = "del_rule"
    /\ err = ""
    /\ op.nterm \in DOMAIN before
    /\ op.nterm \notin DOMAIN rules
    /\ rules # EmptyRules

\* C12: prepare_for_checking applied to the grammar it returned returns a
\* grammar with the same start symbol and the same rules.
C12_PrepareIdempotent ==
    (round = 2 /\ pc \in {"done", "error"}) =>
        /\ pc = "done"
        /\ initial = once.initial
        /\ rules = once.rules

\* C13: self == other is true exactly when the two grammars have the same
\* start symbol and the same rules, and then other == self is true as well.
C13_EqStructural ==
    /\ eq_so # "none" =>
          ((eq_so = "true") <=> (initial = other.initial /\ rules = other.rules))
    /\ (eq_so = "true" /\ eq_os # "none") => eq_os = "true"

\* the pairs (A, B) with a unit rule A -> B, and the B that A reaches over them
UnitEdges(r) == {<<p[1], p[2][1]>> : p \in {q \in Items(r) : IsChain(q[2])}}
UnitTargets(r, A) ==
    LeftReach(UnitEdges(r), {e[2] : e \in {f \in UnitEdges(r) : f[1] = A}})
NonUnit(r, A) == IF A \in DOMAIN r THEN {d \in r[A] : ~IsChain(d)} ELSE {}
RulesOf(r, A) == IF A \in DOMAIN r THEN r[A] ELSE {}

\* C14: _remove_chain_productions on a grammar without empty rules ends
\* without error, leaves no unit rule, and gives every non-terminal its own
\* non-unit rules and those of every non-terminal it reaches by unit rules.
C14_ChainProductions ==
    (stage = "chain" /\ EpsilonLhs(before) = {}) =>
        /\ err = ""
        /\ \A p \in Items(rules) : ~IsChain(p[2])
        /\ \A A \in DOMAIN before \cup DOMAIN rules :
              RulesOf(rules, A) =
                  NonUnit(before, A) \cup
                  UNION {NonUnit(before, B) : B \in UnitTargets(before, A)}

\* the derivations a prefix tree stands for: one for every leaf
RECURSIVE TreePaths(_)
TreePaths(prefixes) ==
    UNION {IF prefixes[j].t = None
           THEN {IF prefixes[j].k = EmptyKey THEN <<>> ELSE <<prefixes[j].k>>}
           ELSE {<<prefixes[j].k>> \o p : p \in TreePaths(prefixes[j].t)}
           : j \in 1..Len(prefixes)}

\* the strings of symbols the derivation d stands for once the non-terminals
\* of fresh are replaced by their rules in g
RECURSIVE Expand(_, _, _)
Expand(g, fresh, d) ==
    IF d = <<>> THEN {<<>>}
    ELSE LET heads == IF d[1] \in fresh /\ d[1] \in DOMAIN g
                      THEN UNION {Expand(g, fresh, e) : e \in g[d[1]]}
                      ELSE {<<d[1]>>}
         IN  {x \o y : x \in heads, y \in Expand(g, fresh, Tail(d))}

\* the non-terminal the last turn of the loop of _factorize worked on
Factored == keys[Len(keys) - Len(pending)]

\* C15: the prefix tree built from the derivations of a non-terminal, in
\* whatever order, stands for exactly those derivations, and the rules
\* separate_prefixes writes for it derive exactly the same symbol strings.
C15_PrefixTreeFaithful ==
    (stage = "factorize" /\ pc = "factorize") =>
        /\ TreePaths(tree) = rules[Factored]
        /\ UNION {Expand(fg, Range(drawn), d) : d \in RulesOf(fg, Factored)}
               = rules[Factored]

\* the left-derivation graph: A -> B when B stands in a rule of A behind
\* non-terminals of V only
LeftGraph(r, V) ==
    {e \in (DOMAIN r) \X UNION {NTsOf(p[2]) : p \in Items(r)} :
        \E d \in r[e[1]] : \E k \in 1..Len(d) :
            /\ d[k] = e[2]
            /\ \A j \in 1..(k - 1) : d[j] \in V}
\* the non-terminals on a cycle of the graph
OnCycle(edges) ==
    {A \in {e[1] : e \in edges} :
        A \in LeftReach(edges, {e[2] : e \in {f \in edges : f[1] = A}})}

\* C16: _has_left_recursion(V) is true exactly when the left-derivation
\* graph has a cycle, reachable from the start symbol or not.
C16_LeftRecursionDetected ==
    (stage = "loaded" /\ pc \in {"rebuild", "factorize"}) =>
        ((branch = "recursive") <=> OnCycle(LeftGraph(rules, vanishing)) # {})
C16_Witness ==
    /\ stage = "loaded"
    /\ pc = "rebuild"
    /\ branch = "recursive"
    /\ vanishing # {}
    /\ OnCycle(LeftGraph(rules, vanishing)) # {}
    /\ OnCycle(LeftGraph(rules, vanishing)) \cap
           LeftReach(LeftGraph(rules, vanishing), {initial}) = {}

\* C17: in _remove_left_recursion every non-terminal reachable from the
\* start symbol gets one rank of its own, the non-terminals are processed in
\* increasing rank, and when the turn of a non-terminal A is over no rule of
\* A begins with A or with a non-terminal processed before A.
C17_RanksAndTurns ==
    /\ (stage = "order" /\ pc = "main") =>
          /\ DOMAIN order = ReachableFrom(rules, {initial})
          /\ \A m, n \in DOMAIN order : m # n => order[m] # order[n]
    /\ (stage \in {"order", "main"} /\ pc = "main") =>
          \A j, k \in 1..Len(okeys) : j < k => order[okeys[j]] < order[okeys[k]]
    /\ (stage = "main" /\ pc = "main") =>
          \A d \in RulesOf(rules, okeys[pos - 1]) :
              d # <<>> => d[1] \notin {okeys[j] : j \in 1..(pos - 1)}

====
